---- MODULE Spec2Model ----
(***************************************************************************)
(* Model of TunnelManager (src/ssh_tunnel_manager_app.py): the GUI thread  *)
(* runs start_tunnel, stop_tunnel and attempt_reconnect of the reconnect   *)
(* timer one handler at a time; every successful spawn starts one          *)
(* daemon thread running _monitor_tunnel, which reads and writes the same  *)
(* attributes with no lock.  A handler or thread is cut into steps at the  *)
(* places where it reads or writes shared attributes, so that every        *)
(* interleaving Python's thread switching allows is a behaviour.           *)
(***************************************************************************)
EXTENDS Integers, Sequences, FiniteSets, TLC

\* ------------------------------------------------------------------ bounds
\* Spec explores every behaviour with at most MaxSpawns client processes
\* (and monitor threads) and MaxCmds start/stop commands; SpecDeep is the
\* same program explored one process and one command further.
MaxSpawns == 2
MaxCmds == 2
DeepSpawns == 3
DeepCmds == 3

\* --------------------------------------------------------- program constants
DISCONNECTED == 0
CONNECTING == 1
CONNECTED == 2
ERROR == 3
DefaultMaxReconnectAttempts == 5
DefaultReconnectDelay == 5

None == 0           \* tunnel_process = None; process ids are 1..DeepSpawns
ProcIds == 1..DeepSpawns

\* Values the settings dialog puts into the fields the model follows: three
\* strings (empty or not), the auto-reconnect box, and the two spin boxes
\* (ranges 1..20 and 1..60, of which a few values).
Strings == {"", "x"}
MaxAttemptsChoices == {1, 2}
DelayChoices == {3}

\* QTime(h, m): a time of day with seconds 0, as every time the program holds
\* (the defaults, a QTimeEdit showing "HH:mm", QTime.fromString(s, "hh:mm"));
\* kept as minutes since midnight, which orders as QTime's comparisons do.
QTime(h, m) == h * 60 + m

\* __init__, lines 98-106: the settings no claim needs varied
DefaultPort == 22
DefaultLocalPort == 8096
DefaultRemotePort == 8096
DefaultConnectTime == QTime(8, 0)
DefaultDisconnectTime == QTime(22, 0)

\* Times the schedule editors are set to, and times at which the minute tick
\* of the schedule timer reads the clock.
WindowTimes == {QTime(8, 0), QTime(22, 0)}
TickTimes == {QTime(8, 0), QTime(9, 0), QTime(12, 0), QTime(22, 0), QTime(23, 30)}

\* last_call.at when the GUI thread is not inside check_schedule()
NoTime == -1

VARIABLES
    state,                   \* self.state
    tunnel_process,          \* self.tunnel_process: None or a process id
    reconnect_attempts,      \* self.reconnect_attempts
    max_reconnect_attempts,  \* self.max_reconnect_attempts
    reconnect_delay,         \* self.reconnect_delay (seconds)
    reconnect_timer,         \* self.reconnect_timer: [active, interval (ms)]
    bandwidth_running,       \* self.bandwidth_monitor.running
    settings,                \* self.settings (host, username, key_path, auto_reconnect)
    connection_history,      \* self.connection_history
    proc,                    \* each spawned client: unborn/running/signalled/exited/terminated/killed
    gpc,                     \* position of the GUI thread inside its handler
    mpc,                     \* position of each monitor thread
    mproc,                   \* the Popen object whose end a monitor thread saw in poll() or awaits in communicate()
    last_call,               \* history: the handler the GUI thread entered last
    exhausted,               \* history: schedule_reconnect gave up, no explicit start or Connected since
    cmds_left,               \* bound: start/stop commands still to be issued
    spawns_left,             \* bound: client processes still to be spawned
    settings_file,           \* the JSON object in SETTINGS_FILE: <<>> while the file does not exist
    last_saved               \* history: self.settings as save_settings() last wrote them

vars == <<state, tunnel_process, reconnect_attempts, max_reconnect_attempts,
          reconnect_delay, reconnect_timer, bandwidth_running, settings,
          connection_history, proc, gpc, mpc, mproc, last_call, exhausted,
          cmds_left, spawns_left, settings_file, last_saved>>

\* ------------------------------------------------------------------ helpers
RECURSIVE Pow2(_)
Pow2(k) == IF k <= 0 THEN 1 ELSE 2 * Pow2(k - 1)

\* (mutant) the exponent taken as the attempt number itself
BackoffDelayMs_NoMinusOne(base, attempts) == base * Pow2(attempts) * 1000

\* delay = reconnect_delay * (2 ** (attempts - 1)), kept in milliseconds, the
\* unit the timer is started with.  2 ** -1 is 0.5 in Python.
BackoffDelayMs(base, attempts) ==
    IF attempts >= 1 THEN base * Pow2(attempts - 1) * 1000
    ELSE (base * 1000) \div 2

Event(type, details) ==
    [type |-> type, details |-> details, attempt |-> 0, delay |-> 0, code |-> ""]

Alive(p) == proc[p] \in {"running", "signalled"}

\* Popen.returncode as text
ReturnCode(p) ==
    CASE proc[p] = "exited" -> "255"
      [] proc[p] = "terminated" -> "-15"
      [] proc[p] = "killed" -> "-9"
      [] OTHER -> "None"

\* (mutant) only the host is looked at
SettingsValid_HostOnly == settings.host # ""

SettingsValid ==
    settings.host # "" /\ settings.username # "" /\ settings.key_path # ""

NextProc == Cardinality({p \in ProcIds : proc[p] # "unborn"}) + 1

\* (mutant) the newest event is put first
add_connection_event_Prepend(event) == <<event>> \o connection_history

\* add_connection_event, lines 340-344
add_connection_event(event) == Append(connection_history, event)

\* The state after construction (__init__) and one save of the settings
\* dialog, before any connection is made.
InitControl ==
    /\ state = DISCONNECTED
    /\ tunnel_process = None
    /\ reconnect_attempts = 0
    /\ reconnect_timer = [active |-> FALSE, interval |-> 0]
    /\ bandwidth_running = FALSE
    /\ connection_history = <<>>
    /\ proc = [p \in ProcIds |-> "unborn"]
    /\ gpc = "idle"
    /\ mpc = [p \in ProcIds |-> "none"]
    /\ mproc = [p \in ProcIds |-> None]
    /\ last_call = [op |-> "none", by |-> "none", noop |-> FALSE, at |-> NoTime]
    /\ exhausted = FALSE

InitProgram ==
    /\ InitControl
    /\ max_reconnect_attempts \in MaxAttemptsChoices
    /\ reconnect_delay \in DelayChoices
    /\ settings \in [host : Strings, port : {DefaultPort}, username : Strings,
                     key_path : Strings, local_port : {DefaultLocalPort},
                     remote_port : {DefaultRemotePort}, auto_reconnect : BOOLEAN,
                     scheduled_connect : {FALSE},
                     connect_time : {DefaultConnectTime},
                     disconnect_time : {DefaultDisconnectTime}]
    /\ settings_file = <<>>
    /\ last_saved = <<>>

Init == InitProgram /\ cmds_left = MaxCmds /\ spawns_left = MaxSpawns

InitDeep == InitProgram /\ cmds_left = DeepCmds /\ spawns_left = DeepSpawns

\* ------------------------------------------------------------ GUI thread
\* Bound: a start that would spawn needs a process id left.
SpawnBudget ==
    state \in {CONNECTED, CONNECTING} \/ ~SettingsValid \/ spawns_left > 0

\* (mutant) the guard forgets Connecting
AlreadyActive_OnlyConnected == state = CONNECTED

\* start_tunnel, lines 181-183: the guard that makes the call a no-op
AlreadyActive == state = CONNECTED \/ state = CONNECTING

\* start_tunnel, lines 181-187: return at once, or enter Connecting and
\* record the Connecting event; validation is the next step.
start_tunnel_entry(by) ==
    /\ last_call' = [op |-> "start_tunnel", by |-> by, noop |-> AlreadyActive,
                     at |-> NoTime]
    /\ IF AlreadyActive
       THEN /\ gpc' = "idle"
            /\ UNCHANGED <<state, connection_history>>
       ELSE /\ state' = CONNECTING
            /\ connection_history' =
                   add_connection_event(Event("Connecting", "Attempting to establish tunnel"))
            /\ gpc' = "st_validate"

\* start_tunnel() called from the tray menu, the schedule tick or exit path
StartTunnel ==
    /\ gpc = "idle"
    /\ cmds_left > 0
    /\ SpawnBudget
    /\ cmds_left' = cmds_left - 1
    /\ start_tunnel_entry("user")
    /\ exhausted' = FALSE
    /\ UNCHANGED <<tunnel_process, reconnect_attempts, max_reconnect_attempts,
                   reconnect_delay, reconnect_timer, bandwidth_running, settings, settings_file, last_saved,
                   proc, mpc, mproc, spawns_left>>

\* attempt_reconnect, lines 309-312: the reconnect timer fires
AttemptReconnect ==
    /\ gpc = "idle"
    /\ reconnect_timer.active
    /\ SpawnBudget
    /\ reconnect_timer' = [reconnect_timer EXCEPT !.active = FALSE]
    /\ start_tunnel_entry("timer")
    /\ UNCHANGED <<tunnel_process, reconnect_attempts, max_reconnect_attempts,
                   reconnect_delay, bandwidth_running, settings, settings_file, last_saved,
                   proc, mpc, mproc, exhausted, cmds_left, spawns_left>>

\* start_tunnel, lines 189-196: validate the settings
StartValidate ==
    /\ gpc = "st_validate"
    /\ IF ~SettingsValid
       THEN /\ state' = ERROR
            /\ connection_history' =
                   add_connection_event(Event("Error", "Missing required connection settings"))
            /\ gpc' = "idle"
       ELSE /\ gpc' = "st_spawn"
            /\ UNCHANGED <<state, connection_history>>
    /\ UNCHANGED <<tunnel_process, reconnect_attempts, max_reconnect_attempts,
                   reconnect_delay, reconnect_timer, bandwidth_running, settings, settings_file, last_saved,
                   proc, mpc, mproc, last_call, exhausted, cmds_left, spawns_left>>

\* start_tunnel, lines 213-233: Popen succeeds; the monitor thread and the
\* bandwidth monitor are started.
SpawnOk ==
    /\ spawns_left > 0
    /\ spawns_left' = spawns_left - 1
    /\ LET p == NextProc IN
         /\ proc' = [proc EXCEPT ![p] = "running"]
         /\ tunnel_process' = p
         /\ mpc' = [mpc EXCEPT ![p] = "m_check"]
    /\ bandwidth_running' = TRUE
    /\ UNCHANGED <<state, connection_history>>

\* start_tunnel, lines 235-240: Popen raises
SpawnFails ==
    /\ state' = ERROR
    /\ connection_history' = add_connection_event(Event("Error", "Failed to start tunnel"))
    /\ UNCHANGED <<tunnel_process, proc, mpc, bandwidth_running, spawns_left>>

StartSpawn ==
    /\ gpc = "st_spawn"
    /\ (SpawnOk \/ SpawnFails)
    /\ gpc' = "idle"
    /\ UNCHANGED <<reconnect_attempts, max_reconnect_attempts, reconnect_delay,
                   reconnect_timer, settings, settings_file, last_saved, mproc, last_call, exhausted, cmds_left>>

\* (mutant) no early return: the stop is carried out from Disconnected too
stop_tunnel_entry_NoGuard(by) ==
    /\ last_call' = [op |-> "stop_tunnel", by |-> by, noop |-> FALSE, at |-> NoTime]
    /\ reconnect_timer' = [reconnect_timer EXCEPT !.active = FALSE]
    /\ gpc' = "sp_check"

\* stop_tunnel, lines 315-319: no-op when Disconnected, else cancel the timer
stop_tunnel_entry(by) ==
    /\ last_call' = [op |-> "stop_tunnel", by |-> by, noop |-> (state = DISCONNECTED),
                     at |-> NoTime]
    /\ IF state = DISCONNECTED
       THEN /\ gpc' = "idle"
            /\ UNCHANGED reconnect_timer
       ELSE /\ reconnect_timer' = [reconnect_timer EXCEPT !.active = FALSE]
            /\ gpc' = "sp_check"

\* stop_tunnel() called from the tray menu or the exit path
StopTunnel ==
    /\ gpc = "idle"
    /\ cmds_left > 0
    /\ cmds_left' = cmds_left - 1
    /\ stop_tunnel_entry("user")
    /\ UNCHANGED <<exhausted, state, tunnel_process, reconnect_attempts, max_reconnect_attempts,
                   reconnect_delay, bandwidth_running, settings, settings_file, last_saved, connection_history,
                   proc, mpc, mproc, spawns_left>>

\* stop_tunnel, lines 321-323: terminate() when the client is still running
StopCheck ==
    /\ gpc = "sp_check"
    /\ IF tunnel_process # None /\ Alive(tunnel_process)
       THEN /\ proc' = [proc EXCEPT ![tunnel_process] = "signalled"]
            /\ gpc' = "sp_sleep"
       ELSE /\ gpc' = "sp_release"
            /\ UNCHANGED proc
    /\ UNCHANGED <<state, tunnel_process, reconnect_attempts, max_reconnect_attempts,
                   reconnect_delay, reconnect_timer, bandwidth_running, settings, settings_file, last_saved,
                   connection_history, mpc, mproc, last_call, exhausted, cmds_left, spawns_left>>

\* stop_tunnel, lines 325-328: after the 0.5 s sleep, kill() if still running
StopSleep ==
    /\ gpc = "sp_sleep"
    /\ IF Alive(tunnel_process)
       THEN proc' = [proc EXCEPT ![tunnel_process] = "killed"]
       ELSE UNCHANGED proc
    /\ gpc' = "sp_release"
    /\ UNCHANGED <<state, tunnel_process, reconnect_attempts, max_reconnect_attempts,
                   reconnect_delay, reconnect_timer, bandwidth_running, settings, settings_file, last_saved,
                   connection_history, mpc, mproc, last_call, exhausted, cmds_left, spawns_left>>

\* stop_tunnel, line 332
StopRelease ==
    /\ gpc = "sp_release"
    /\ tunnel_process' = None
    /\ gpc' = "sp_finish"
    /\ UNCHANGED <<state, reconnect_attempts, max_reconnect_attempts,
                   reconnect_delay, reconnect_timer, bandwidth_running, settings, settings_file, last_saved,
                   connection_history, proc, mpc, mproc, last_call, exhausted, cmds_left, spawns_left>>

\* stop_tunnel, lines 333-338
StopFinish ==
    /\ gpc = "sp_finish"
    /\ state' = DISCONNECTED
    /\ connection_history' =
           add_connection_event(Event("Disconnected", "Tunnel stopped manually"))
    /\ bandwidth_running' = FALSE
    /\ gpc' = "idle"
    /\ UNCHANGED <<last_call, exhausted, tunnel_process, reconnect_attempts, max_reconnect_attempts,
                   reconnect_delay, reconnect_timer, settings, settings_file, last_saved, proc, mpc, mproc,
                   cmds_left, spawns_left>>

\* ------------------------------------------------- the persisted settings
\* Values the other editors of the settings dialog are set to.
PortChoices == {22, 2222}
LocalPortChoices == {8080}
RemotePortChoices == {9000}
EditTimes == {QTime(0, 0), QTime(8, 0), QTime(9, 5), QTime(22, 0), QTime(23, 59)}

\* an invalid QTime, what QTime.fromString gives for a text it cannot read
InvalidTime == -1

\* (mutant) the hour written on the 12-hour clock
toString_TwelveHour(t) ==
    LET h == (t \div 60) % 12
        m == t % 60
    IN  <<h \div 10, h % 10, m \div 10, m % 10>>

\* QTime.toString("hh:mm"), lines 142-143: the four digits of "hh:mm", the
\* hour on the 24-hour clock, both numbers with a leading zero
toString(t) ==
    LET h == t \div 60
        m == t % 60
    IN  <<h \div 10, h % 10, m \div 10, m % 10>>

\* QTime.fromString(text, "hh:mm"), lines 128 and 130
fromString(text) ==
    LET h == text[1] * 10 + text[2]
        m == text[3] * 10 + text[4]
    IN  IF h <= 23 /\ m <= 59 THEN QTime(h, m) ELSE InvalidTime

\* save_settings, lines 139-150: the JSON object written to SETTINGS_FILE;
\* json keeps strings, integers and booleans as they are
save_settings(st) ==
    [host |-> st.host, port |-> st.port, username |-> st.username,
     key_path |-> st.key_path, local_port |-> st.local_port,
     remote_port |-> st.remote_port, auto_reconnect |-> st.auto_reconnect,
     scheduled_connect |-> st.scheduled_connect,
     connect_time_str |-> toString(st.connect_time),
     disconnect_time_str |-> toString(st.disconnect_time)]

\* load_settings, lines 117-130, on the settings st and the object saved read
\* from the file.  The keys connect_time_str and disconnect_time_str also
\* land in self.settings; save_settings overwrites them before it writes.
load_settings(st, saved) ==
    [host |-> saved.host, port |-> saved.port, username |-> saved.username,
     key_path |-> saved.key_path, local_port |-> saved.local_port,
     remote_port |-> saved.remote_port, auto_reconnect |-> saved.auto_reconnect,
     scheduled_connect |-> saved.scheduled_connect,
     connect_time |-> fromString(saved.connect_time_str),
     disconnect_time |-> fromString(saved.disconnect_time_str)]

\* __init__, lines 96-107
DefaultSettings ==
    [host |-> "", port |-> DefaultPort, username |-> "", key_path |-> "",
     local_port |-> DefaultLocalPort, remote_port |-> DefaultRemotePort,
     auto_reconnect |-> TRUE, scheduled_connect |-> FALSE,
     connect_time |-> DefaultConnectTime, disconnect_time |-> DefaultDisconnectTime]

\* SettingsDialog.save_settings, lines 492-512: the Save button copies the
\* editors into the manager and calls its save_settings()
SaveSettings ==
    /\ gpc = "idle"
    /\ \E new \in [host : Strings, port : PortChoices, username : {"u"},
                    key_path : {"k"}, local_port : LocalPortChoices,
                    remote_port : RemotePortChoices, auto_reconnect : BOOLEAN,
                    scheduled_connect : BOOLEAN,
                    connect_time : EditTimes, disconnect_time : EditTimes] :
         /\ settings' = new
         /\ settings_file' = <<save_settings(new)>>
         /\ last_saved' = <<new>>
    /\ max_reconnect_attempts' \in MaxAttemptsChoices
    /\ reconnect_delay' \in DelayChoices
    /\ last_call' = [op |-> "save_settings", by |-> "user", noop |-> FALSE, at |-> NoTime]
    /\ UNCHANGED <<state, tunnel_process, reconnect_attempts, reconnect_timer,
                   bandwidth_running, connection_history, proc, gpc, mpc, mproc,
                   exhausted, cmds_left, spawns_left>>

\* The application is started again: TunnelManager.__init__ (lines 86-113),
\* then MainWindow.__init__ calls load_settings() (line 549).
Startup ==
    /\ gpc = "idle"
    /\ state = DISCONNECTED
    /\ settings' = IF settings_file = <<>> THEN DefaultSettings
                   ELSE load_settings(DefaultSettings, settings_file[1])
    /\ max_reconnect_attempts' = DefaultMaxReconnectAttempts
    /\ reconnect_delay' = DefaultReconnectDelay
    /\ last_call' = [op |-> "load_settings", by |-> "startup",
                     noop |-> (settings_file = <<>>), at |-> NoTime]
    /\ UNCHANGED <<state, tunnel_process, reconnect_attempts, reconnect_timer,
                   bandwidth_running, settings_file, last_saved, connection_history,
                   proc, gpc, mpc, mproc, exhausted, cmds_left, spawns_left>>

\* SettingsDialog.clear_history, lines 535-537: the Clear History button
ClearHistory ==
    /\ gpc = "idle"
    /\ cmds_left > 0
    /\ cmds_left' = cmds_left - 1
    /\ connection_history' = <<>>
    /\ last_call' = [op |-> "clear_history", by |-> "user", noop |-> FALSE, at |-> NoTime]
    /\ UNCHANGED <<state, tunnel_process, reconnect_attempts, max_reconnect_attempts,
                   reconnect_delay, reconnect_timer, bandwidth_running, settings,
                   settings_file, last_saved, proc, gpc, mpc, mproc, exhausted,
                   spawns_left>>

\* ------------------------------------------- the schedule tick (GUI thread)
\* (mutant) the window is closed at its end: [connect_time, disconnect_time]
SameDayCall_ClosedEnd(t) ==
    LET connect_time == settings.connect_time
        disconnect_time == settings.disconnect_time
    IN  IF connect_time <= t /\ t <= disconnect_time /\ state = DISCONNECTED
        THEN "start"
        ELSE IF (t < connect_time \/ t > disconnect_time) /\ state = CONNECTED
             THEN "stop"
             ELSE "none"

\* check_schedule, lines 165-170: the call a tick reading the time t makes
\* when connect_time < disconnect_time.  The state is read once: each
\* condition tests the time first and "and" stops at a false operand.
SameDayCall(t) ==
    LET connect_time == settings.connect_time
        disconnect_time == settings.disconnect_time
    IN  IF connect_time <= t /\ t < disconnect_time /\ state = DISCONNECTED
        THEN "start"
        ELSE IF (t < connect_time \/ t >= disconnect_time) /\ state = CONNECTED
             THEN "stop"
             ELSE "none"

\* (mutant) the two halves of the window joined by "and"
OvernightCall_And(t) ==
    LET connect_time == settings.connect_time
        disconnect_time == settings.disconnect_time
    IN  IF (t >= connect_time /\ t < disconnect_time) /\ state = DISCONNECTED
        THEN "start"
        ELSE IF disconnect_time <= t /\ t < connect_time /\ state = CONNECTED
             THEN "stop"
             ELSE "none"

\* (mutant) the window opens strictly after connect_time
OvernightCall_StrictStart(t) ==
    LET connect_time == settings.connect_time
        disconnect_time == settings.disconnect_time
    IN  IF (t > connect_time \/ t < disconnect_time) /\ state = DISCONNECTED
        THEN "start"
        ELSE IF disconnect_time <= t /\ t < connect_time /\ state = CONNECTED
             THEN "stop"
             ELSE "none"

\* check_schedule, lines 172-178: the same when connect_time >= disconnect_time
OvernightCall(t) ==
    LET connect_time == settings.connect_time
        disconnect_time == settings.disconnect_time
    IN  IF (t >= connect_time \/ t < disconnect_time) /\ state = DISCONNECTED
        THEN "start"
        ELSE IF disconnect_time <= t /\ t < connect_time /\ state = CONNECTED
             THEN "stop"
             ELSE "none"

\* (mutant) the tick stops the tunnel only in the hour after disconnect_time
ScheduledCall_StopWithinHour(t) ==
    IF ~settings.scheduled_connect THEN "none"
    ELSE IF settings.connect_time < settings.disconnect_time THEN SameDayCall(t)
    ELSE IF OvernightCall(t) = "stop" /\ t >= settings.disconnect_time + 60 THEN "none"
    ELSE OvernightCall(t)

\* check_schedule, lines 156-178
ScheduledCall(t) ==
    IF ~settings.scheduled_connect THEN "none"
    ELSE IF settings.connect_time < settings.disconnect_time THEN SameDayCall(t)
    ELSE OvernightCall(t)

\* check_schedule, lines 155-178, up to the call it makes: the schedule timer
\* fires and the handler reads the clock as t.
CheckSchedule(t) ==
    /\ gpc = "idle"
    /\ cmds_left > 0
    /\ cmds_left' = cmds_left - 1
    /\ LET call == ScheduledCall(t) IN
         /\ call = "start" => (~SettingsValid \/ spawns_left > 0)
         /\ gpc' = CASE call = "start" -> "cs_start"
                     [] call = "stop" -> "cs_stop"
                     [] OTHER -> "idle"
         /\ last_call' = [op |-> "check_schedule", by |-> "schedule",
                          noop |-> (call = "none"), at |-> t]
    /\ UNCHANGED <<state, tunnel_process, reconnect_attempts, max_reconnect_attempts,
                   reconnect_delay, reconnect_timer, bandwidth_running, settings,
                   settings_file, last_saved, connection_history, proc, mpc, mproc,
                   exhausted, spawns_left>>

\* check_schedule, lines 167 and 175: self.start_tunnel()
ScheduleStart ==
    /\ gpc = "cs_start"
    /\ start_tunnel_entry("schedule")
    /\ exhausted' = FALSE
    /\ UNCHANGED <<tunnel_process, reconnect_attempts, max_reconnect_attempts,
                   reconnect_delay, reconnect_timer, bandwidth_running, settings,
                   settings_file, last_saved, proc, mpc, mproc, cmds_left, spawns_left>>

\* check_schedule, lines 170 and 178: self.stop_tunnel()
ScheduleStop ==
    /\ gpc = "cs_stop"
    /\ stop_tunnel_entry("schedule")
    /\ UNCHANGED <<exhausted, state, tunnel_process, reconnect_attempts,
                   max_reconnect_attempts, reconnect_delay, bandwidth_running, settings,
                   settings_file, last_saved, connection_history, proc, mpc, mproc,
                   cmds_left, spawns_left>>

\* ------------------------------------------------------ the client process
\* The ssh client ends by itself, or on the SIGTERM stop_tunnel sent it.
ProcExit(p) ==
    /\ Alive(p)
    /\ proc' = [proc EXCEPT ![p] = IF proc[p] = "signalled" THEN "terminated" ELSE "exited"]
    /\ UNCHANGED <<state, tunnel_process, reconnect_attempts, max_reconnect_attempts,
                   reconnect_delay, reconnect_timer, bandwidth_running, settings, settings_file, last_saved,
                   connection_history, gpc, mpc, mproc, last_call, exhausted, cmds_left, spawns_left>>


\* ------------------------------------------------------- monitor threads
\* What a step of monitor thread i leaves alone besides what it names.
MonFrameBase ==
    UNCHANGED <<max_reconnect_attempts, reconnect_delay, settings, settings_file, last_saved, proc, gpc,
                last_call, cmds_left, spawns_left>>

MonFrame == MonFrameBase /\ UNCHANGED exhausted

\* _monitor_tunnel, lines 249-253: return when there is no process, else sleep
MonCheck(i) ==
    /\ mpc[i] = "m_check"
    /\ mpc' = [mpc EXCEPT ![i] = IF tunnel_process = None THEN "done" ELSE "m_poll"]
    /\ MonFrame
    /\ UNCHANGED <<state, tunnel_process, reconnect_attempts, reconnect_timer,
                   bandwidth_running, connection_history, mproc>>

\* _monitor_tunnel, line 256: self.tunnel_process.poll() after the sleep.
\* The attribute is read again: it may be None by now (AttributeError ends
\* the thread) or name a later process.
MonPoll(i) ==
    /\ mpc[i] = "m_poll"
    /\ mpc' = [mpc EXCEPT ![i] =
                 IF tunnel_process = None THEN "crashed"
                 ELSE IF ~Alive(tunnel_process) THEN "m_stderr"
                 ELSE "m_setconn"]
    /\ mproc' = [mproc EXCEPT ![i] = tunnel_process]
    /\ MonFrame
    /\ UNCHANGED <<state, tunnel_process, reconnect_attempts, reconnect_timer,
                   bandwidth_running, connection_history>>

\* _monitor_tunnel, line 257: stderr.read() returns at end of file, that is
\* once the process whose pipe is read has ended.
MonStderr(i) ==
    /\ mpc[i] = "m_stderr"
    /\ tunnel_process # None => ~Alive(tunnel_process)
    /\ mpc' = [mpc EXCEPT ![i] = IF tunnel_process = None THEN "crashed" ELSE "m_seterr"]
    /\ MonFrame
    /\ UNCHANGED <<state, tunnel_process, reconnect_attempts, reconnect_timer,
                   bandwidth_running, connection_history, mproc>>

\* _monitor_tunnel, lines 260-267: early failure
MonSetError(i) ==
    /\ mpc[i] = "m_seterr"
    /\ state' = ERROR
    /\ connection_history' = add_connection_event(Event("Error", "Tunnel process failed"))
    /\ mpc' = [mpc EXCEPT ![i] = IF settings.auto_reconnect THEN "sr_check" ELSE "done"]
    /\ MonFrame
    /\ UNCHANGED <<tunnel_process, reconnect_attempts, reconnect_timer,
                   bandwidth_running, mproc>>

\* _monitor_tunnel, lines 270-273: the client survived the grace window
MonSetConnected(i) ==
    /\ mpc[i] = "m_setconn"
    /\ state' = CONNECTED
    /\ connection_history' =
           add_connection_event(Event("Connected", "Tunnel established successfully"))
    /\ mpc' = [mpc EXCEPT ![i] = "m_reset"]
    /\ MonFrameBase
    /\ exhausted' = FALSE
    /\ UNCHANGED <<tunnel_process, reconnect_attempts, reconnect_timer,
                   bandwidth_running, mproc>>

\* (mutant) the counter is left as it is
MonReset_NoReset(i) ==
    /\ mpc[i] = "m_reset"
    /\ mpc' = [mpc EXCEPT ![i] = "m_comm"]
    /\ MonFrame
    /\ UNCHANGED <<state, tunnel_process, reconnect_attempts, reconnect_timer,
                   bandwidth_running, connection_history, mproc>>

\* _monitor_tunnel, line 274
MonReset(i) ==
    /\ mpc[i] = "m_reset"
    /\ reconnect_attempts' = 0
    /\ mpc' = [mpc EXCEPT ![i] = "m_comm"]
    /\ MonFrame
    /\ UNCHANGED <<state, tunnel_process, reconnect_timer, bandwidth_running,
                   connection_history, mproc>>

\* _monitor_tunnel, line 277: self.tunnel_process.communicate() is called on
\* the object the attribute names now
MonCommunicate(i) ==
    /\ mpc[i] = "m_comm"
    /\ IF tunnel_process = None
       THEN /\ mpc' = [mpc EXCEPT ![i] = "crashed"]
            /\ UNCHANGED mproc
       ELSE /\ mpc' = [mpc EXCEPT ![i] = "m_wait"]
            /\ mproc' = [mproc EXCEPT ![i] = tunnel_process]
    /\ MonFrame
    /\ UNCHANGED <<state, tunnel_process, reconnect_attempts, reconnect_timer,
                   bandwidth_running, connection_history>>

\* _monitor_tunnel, lines 277-283: communicate() returns when that process
\* has ended; then "only if we haven't manually stopped", and the warning
\* reads self.tunnel_process.returncode
MonAfter(i) ==
    /\ mpc[i] = "m_wait"
    /\ ~Alive(mproc[i])
    /\ mpc' = [mpc EXCEPT ![i] =
                 IF state # CONNECTED THEN "done"
                 ELSE IF tunnel_process = None THEN "crashed"
                 ELSE "m_setdisc"]
    /\ MonFrame
    /\ UNCHANGED <<state, tunnel_process, reconnect_attempts, reconnect_timer,
                   bandwidth_running, connection_history, mproc>>

\* _monitor_tunnel, lines 285-287: Disconnected, and the "Connection lost"
\* event, whose text reads self.tunnel_process.returncode once more
MonSetDisconnected(i) ==
    /\ mpc[i] = "m_setdisc"
    /\ state' = DISCONNECTED
    /\ IF tunnel_process = None
       THEN /\ mpc' = [mpc EXCEPT ![i] = "crashed"]
            /\ UNCHANGED connection_history
       ELSE /\ mpc' = [mpc EXCEPT ![i] = "m_bwstop"]
            /\ connection_history' =
                   add_connection_event([Event("Disconnected", "Connection lost")
                                            EXCEPT !.code = ReturnCode(tunnel_process)])
    /\ MonFrame
    /\ UNCHANGED <<tunnel_process, reconnect_attempts, reconnect_timer,
                   bandwidth_running, mproc>>

\* (mutant) schedule_reconnect() is called whatever auto_reconnect says
MonStopBandwidth_AlwaysReconnect(i) ==
    /\ mpc[i] = "m_bwstop"
    /\ bandwidth_running' = FALSE
    /\ mpc' = [mpc EXCEPT ![i] = "sr_check"]
    /\ MonFrame
    /\ UNCHANGED <<state, tunnel_process, reconnect_attempts, reconnect_timer,
                   connection_history, mproc>>

\* _monitor_tunnel, lines 290-294
MonStopBandwidth(i) ==
    /\ mpc[i] = "m_bwstop"
    /\ bandwidth_running' = FALSE
    /\ mpc' = [mpc EXCEPT ![i] = IF settings.auto_reconnect THEN "sr_check" ELSE "done"]
    /\ MonFrame
    /\ UNCHANGED <<state, tunnel_process, reconnect_attempts, reconnect_timer,
                   connection_history, mproc>>

\* ---------------------------------- schedule_reconnect (on a monitor thread)
\* schedule_reconnect, line 297
AttemptsExhausted == reconnect_attempts >= max_reconnect_attempts

\* schedule_reconnect, lines 297-300
SchedCheck(i) ==
    /\ mpc[i] = "sr_check"
    /\ IF AttemptsExhausted
       THEN /\ connection_history' =
                   add_connection_event(Event("Error", "Maximum reconnection attempts reached"))
            /\ mpc' = [mpc EXCEPT ![i] = "done"]
            /\ exhausted' = TRUE
       ELSE /\ mpc' = [mpc EXCEPT ![i] = "sr_inc"]
            /\ UNCHANGED <<connection_history, exhausted>>
    /\ MonFrameBase
    /\ UNCHANGED <<state, tunnel_process, reconnect_attempts, reconnect_timer,
                   bandwidth_running, mproc>>

\* schedule_reconnect, line 302
SchedIncrement(i) ==
    /\ mpc[i] = "sr_inc"
    /\ reconnect_attempts' = reconnect_attempts + 1
    /\ mpc' = [mpc EXCEPT ![i] = "sr_arm"]
    /\ MonFrame
    /\ UNCHANGED <<state, tunnel_process, reconnect_timer, bandwidth_running,
                   connection_history, mproc>>

\* schedule_reconnect, lines 303-307: the delay is computed from the counter
\* as it is now, the Reconnecting event recorded and the timer started.  The
\* call is made on the monitor thread, and Qt starts a timer only on the
\* thread the timer lives in: the start may take effect or not.
SchedArm(i) ==
    /\ mpc[i] = "sr_arm"
    /\ LET delay == BackoffDelayMs(reconnect_delay, reconnect_attempts) IN
         /\ connection_history' =
                add_connection_event([Event("Reconnecting", "Attempt scheduled")
                                         EXCEPT !.attempt = reconnect_attempts,
                                                !.delay = delay])
         /\ \/ reconnect_timer' = [active |-> TRUE, interval |-> delay]
            \/ UNCHANGED reconnect_timer
    /\ mpc' = [mpc EXCEPT ![i] = "done"]
    /\ MonFrame
    /\ UNCHANGED <<state, tunnel_process, reconnect_attempts, bandwidth_running, mproc>>

Monitor(i) ==
    \/ MonCheck(i)
    \/ MonPoll(i)
    \/ MonStderr(i)
    \/ MonSetError(i)
    \/ MonSetConnected(i)
    \/ MonReset(i)
    \/ MonCommunicate(i)
    \/ MonAfter(i)
    \/ MonSetDisconnected(i)
    \/ MonStopBandwidth(i)
    \/ SchedCheck(i)
    \/ SchedIncrement(i)
    \/ SchedArm(i)

\* ------------------------------------------------------------ specification
Next ==
    \/ StartTunnel
    \/ AttemptReconnect
    \/ StartValidate
    \/ StartSpawn
    \/ StopTunnel
    \/ StopCheck
    \/ StopSleep
    \/ StopRelease
    \/ StopFinish
    \/ \E p \in ProcIds : ProcExit(p)
    \/ \E i \in ProcIds : Monitor(i)

Spec == Init /\ [][Next]_vars

SpecDeep == InitDeep /\ [][Next]_vars

\* The program with the schedule enabled or not and a window chosen in the
\* settings dialog.
InitSched ==
    /\ InitControl
    /\ max_reconnect_attempts = 1
    /\ reconnect_delay \in DelayChoices
    /\ settings \in [host : {"x"}, port : {DefaultPort}, username : {"x"},
                     key_path : {"x"}, local_port : {DefaultLocalPort},
                     remote_port : {DefaultRemotePort}, auto_reconnect : {TRUE},
                     scheduled_connect : BOOLEAN,
                     connect_time : WindowTimes, disconnect_time : WindowTimes]
    /\ settings_file = <<>>
    /\ last_saved = <<>>
    /\ cmds_left = MaxCmds
    /\ spawns_left = MaxSpawns

\* The tunnel is driven by the schedule alone: the tick, the calls it makes,
\* the reconnect timer, the client processes and the monitor threads.
NextSched ==
    \/ \E t \in TickTimes : CheckSchedule(t)
    \/ ScheduleStart
    \/ ScheduleStop
    \/ AttemptReconnect
    \/ StartValidate
    \/ StartSpawn
    \/ StopCheck
    \/ StopSleep
    \/ StopRelease
    \/ StopFinish
    \/ \E p \in ProcIds : ProcExit(p)
    \/ \E i \in ProcIds : Monitor(i)

SpecSched == InitSched /\ [][NextSched]_vars


\* The settings dialog and the restart of the application, the tunnel idle.
InitPersist ==
    /\ InitControl
    /\ max_reconnect_attempts = DefaultMaxReconnectAttempts
    /\ reconnect_delay = DefaultReconnectDelay
    /\ settings = DefaultSettings
    /\ settings_file = <<>>
    /\ last_saved = <<>>
    /\ cmds_left = 0
    /\ spawns_left = 0

NextPersist == SaveSettings \/ Startup

SpecPersist == InitPersist /\ [][NextPersist]_vars

\* Every operation that touches the history: the commands of the menu, the
\* schedule tick, the reconnect timer, the monitor threads and the Clear
\* History button, with the schedule on and auto_reconnect on.
InitHistory ==
    /\ InitControl
    /\ max_reconnect_attempts = 1
    /\ reconnect_delay \in DelayChoices
    /\ settings \in [host : Strings, port : {DefaultPort}, username : {"x"},
                     key_path : {"x"}, local_port : {DefaultLocalPort},
                     remote_port : {DefaultRemotePort}, auto_reconnect : {TRUE},
                     scheduled_connect : {TRUE},
                     connect_time : {DefaultConnectTime},
                     disconnect_time : {DefaultDisconnectTime}]
    /\ settings_file = <<>>
    /\ last_saved = <<>>
    /\ cmds_left = MaxCmds
    /\ spawns_left = MaxSpawns

NextHistory ==
    \/ Next
    \/ \E t \in {QTime(9, 0), QTime(23, 30)} : CheckSchedule(t)
    \/ ScheduleStart
    \/ ScheduleStop
    \/ ClearHistory

SpecHistory == InitHistory /\ [][NextHistory]_vars

TypeOK ==
    /\ state \in {DISCONNECTED, CONNECTING, CONNECTED, ERROR}
    /\ tunnel_process \in {None} \cup ProcIds
    /\ reconnect_attempts \in Nat
    /\ gpc \in {"idle", "st_validate", "st_spawn", "sp_check", "sp_sleep",
                "sp_release", "sp_finish", "cs_start", "cs_stop"}

\* ------------------------------------------------------------------ claims
LiveProcs == {p \in ProcIds : Alive(p)}

\* stop_tunnel() has returned and start_tunnel() has not been called since
StopReturned == last_call.op = "stop_tunnel" /\ gpc = "idle"

\* the process ended on the SIGTERM or SIGKILL stop_tunnel() sent it
EndedByStop(p) == p # None /\ proc[p] \in {"terminated", "killed"}

LastEvent == connection_history[Len(connection_history)]

\* C1: at most one spawned SSH client process is alive at any time, in every
\* interleaving of start_tunnel, stop_tunnel, timer firings and monitor steps.
C1_AtMostOneLiveProcess == Cardinality(LiveProcs) <= 1

\* C2: after stop_tunnel() returns, whatever the state was when it was
\* called, the state is Disconnected and tunnel_process is None, and this
\* stays so until the next start_tunnel() call.
C2_StopLeavesDisconnected ==
    StopReturned => (state = DISCONNECTED /\ tunnel_process = None)

\* C3: start_tunnel() called while the state is Connected or Connecting is a
\* no-op: state, history, process handle and reconnect counter are unchanged
\* and no process is spawned (none is created, no monitor thread started).
C3_StartWhileActiveIsNoOp ==
    [][((StartTunnel \/ AttemptReconnect) /\ state \in {CONNECTED, CONNECTING})
          => /\ UNCHANGED <<state, connection_history, tunnel_process,
                            reconnect_attempts, proc, mpc>>
             /\ gpc' = "idle"]_vars

C3_Witness ==
    /\ last_call.op = "start_tunnel" /\ last_call.noop
    /\ gpc = "idle"
    /\ state = CONNECTED
    /\ tunnel_process # None /\ Alive(tunnel_process)

\* C4: the exit of the client caused by a manual stop_tunnel() is never
\* treated as a failure: no monitor thread records an Error or a
\* "Connection lost" event for a process that ended on stop_tunnel()'s signal.
C4_StopExitIsNoFailure ==
    [][\A i \in ProcIds :
          (mpc[i] \in {"m_seterr", "m_setdisc"} /\ mpc'[i] # mpc[i])
              => ~EndedByStop(mproc[i])]_vars

\* C5: a stop_tunnel() issued while a reconnect timer is pending cancels it:
\* from the return of stop_tunnel() until the next start_tunnel() call no
\* reconnect timer is armed.
C5_StopCancelsTimer == StopReturned => ~reconnect_timer.active


\* C6: whenever schedule_reconnect() arms the timer for attempt n, the value
\* of the reconnect counter it reads after the increment, with n in
\* 1..max_reconnect_attempts, the delay it records and arms is exactly
\* reconnect_delay * 2^(n-1) seconds.
C6_BackoffDelay ==
    [][\A i \in ProcIds :
          (/\ mpc[i] = "sr_arm" /\ mpc'[i] # mpc[i]
           /\ reconnect_attempts \in 1..max_reconnect_attempts)
          => LET n == reconnect_attempts
                 ms == reconnect_delay * (2 ^ (n - 1)) * 1000
             IN /\ LastEvent'.type = "Reconnecting"
                /\ LastEvent'.attempt = n
                /\ LastEvent'.delay = ms
                /\ reconnect_timer' # reconnect_timer
                      => reconnect_timer' = [active |-> TRUE, interval |-> ms]]_vars

C6_Witness ==
    /\ reconnect_timer = [active |-> TRUE, interval |-> 6000]
    /\ reconnect_delay = 3
    /\ reconnect_attempts = 2
    /\ Len(connection_history) > 0
    /\ LastEvent.type = "Reconnecting" /\ LastEvent.attempt = 2

\* C7: once max_reconnect_attempts is reached, schedule_reconnect() records
\* the Error event "Maximum reconnection attempts reached" and arms no timer,
\* and the reconnect timer starts no further start_tunnel() until an explicit
\* start_tunnel() or a successful connection.
C7_ExhaustedStopsRetrying ==
    [][/\ \A i \in ProcIds :
            (/\ mpc[i] = "sr_check" /\ mpc'[i] # mpc[i]
             /\ reconnect_attempts >= max_reconnect_attempts)
            => /\ connection_history' = Append(connection_history,
                      Event("Error", "Maximum reconnection attempts reached"))
               /\ UNCHANGED <<reconnect_timer, reconnect_attempts>>
               /\ mpc'[i] = "done"
       /\ exhausted => ~AttemptReconnect]_vars

\* C8: in every reachable state reconnect_attempts <= max_reconnect_attempts,
\* also when several monitor threads are in schedule_reconnect() at once.
C8_AttemptsBounded == reconnect_attempts <= max_reconnect_attempts

\* C9: every transition into Connected is made by a monitor thread whose next
\* statement sets reconnect_attempts to 0, whatever its previous value.
C9_ConnectedResetsAttempts ==
    [][/\ (state' = CONNECTED /\ state # CONNECTED)
            => \E i \in ProcIds : mpc[i] = "m_setconn" /\ mpc'[i] = "m_reset"
       /\ \A i \in ProcIds :
            (mpc[i] = "m_reset" /\ mpc'[i] # mpc[i]) => reconnect_attempts' = 0]_vars

C9_Witness ==
    /\ state = CONNECTED
    /\ reconnect_attempts = 0
    /\ \E i \in ProcIds : mpc[i] = "m_comm"
    /\ \E k \in 1..Len(connection_history) :
          /\ connection_history[k].type = "Reconnecting"
          /\ connection_history[k].attempt >= 1

\* C10: start_tunnel() called from Disconnected or Error with host, username
\* or key_path empty ends in state Error, appends an Error event, spawns no
\* process and schedules no reconnect, even when auto_reconnect is true.
C10_InvalidSettingsGiveError ==
    [][/\ ((StartTunnel \/ AttemptReconnect) /\ state \in {DISCONNECTED, ERROR})
            => gpc' = "st_validate"
       /\ (/\ gpc = "st_validate" /\ gpc' # gpc
           /\ (settings.host = "" \/ settings.username = "" \/ settings.key_path = ""))
            => /\ state' = ERROR
               /\ connection_history' = Append(connection_history,
                      Event("Error", "Missing required connection settings"))
               /\ gpc' = "idle"
               /\ UNCHANGED <<proc, mpc, tunnel_process, reconnect_timer,
                              reconnect_attempts>>]_vars

C10_Witness ==
    /\ last_call.op = "start_tunnel" /\ ~last_call.noop
    /\ gpc = "idle"
    /\ settings.host # "" /\ settings.username # "" /\ settings.key_path = ""
    /\ settings.auto_reconnect
    /\ state = ERROR
    /\ LastEvent = Event("Error", "Missing required connection settings")
    /\ LiveProcs = {} /\ ~reconnect_timer.active

\* ------------------------------------------------- claims on the schedule
\* what a tick that calls nothing leaves alone
TickDoesNothing ==
    /\ gpc' = "idle"
    /\ UNCHANGED <<state, connection_history, tunnel_process, reconnect_timer,
                   reconnect_attempts, bandwidth_running, proc, mpc>>

\* the call check_schedule() decided on is the next thing the GUI thread does
TickMakesItsCall ==
    /\ (gpc = "cs_start" /\ gpc' # gpc) =>
           (last_call'.op = "start_tunnel" /\ last_call'.by = "schedule")
    /\ (gpc = "cs_stop" /\ gpc' # gpc) =>
           (last_call'.op = "stop_tunnel" /\ last_call'.by = "schedule")

\* C11: with scheduled_connect on and connect_time < disconnect_time, a tick
\* at time t calls start_tunnel() when connect_time <= t < disconnect_time
\* and the state is Disconnected, calls stop_tunnel() when t is outside that
\* interval and the state is Connected, and does nothing in every other
\* case; with scheduled_connect off the tick does nothing at all.
C11_SameDayWindow ==
    [][/\ \A t \in TickTimes :
            CheckSchedule(t) =>
              LET c == settings.connect_time
                  d == settings.disconnect_time
                  inside == c <= t /\ t < d
              IN /\ (settings.scheduled_connect /\ c < d) =>
                      IF inside /\ state = DISCONNECTED THEN gpc' = "cs_start"
                      ELSE IF ~inside /\ state = CONNECTED THEN gpc' = "cs_stop"
                      ELSE TickDoesNothing
                 /\ ~settings.scheduled_connect => TickDoesNothing
       /\ TickMakesItsCall]_vars

C11_Witness ==
    /\ settings.scheduled_connect
    /\ settings.connect_time = QTime(8, 0) /\ settings.disconnect_time = QTime(22, 0)
    /\ last_call.op = "check_schedule" /\ last_call.at = QTime(23, 30)
    /\ gpc = "cs_stop" /\ state = CONNECTED

\* C12: with scheduled_connect on and connect_time >= disconnect_time
\* (overnight window), a tick at time t calls start_tunnel() when
\* (t >= connect_time or t < disconnect_time) and the state is Disconnected,
\* and calls stop_tunnel() when disconnect_time <= t < connect_time and the
\* state is Connected.
C12_OvernightWindow ==
    [][/\ \A t \in TickTimes :
            (/\ CheckSchedule(t)
             /\ settings.scheduled_connect
             /\ settings.connect_time >= settings.disconnect_time)
            => LET c == settings.connect_time
                   d == settings.disconnect_time
               IN /\ ((t >= c \/ t < d) /\ state = DISCONNECTED) => gpc' = "cs_start"
                  /\ (d <= t /\ t < c /\ state = CONNECTED) => gpc' = "cs_stop"
       /\ (gpc = "cs_start" /\ gpc' # gpc) => last_call'.op = "start_tunnel"
       /\ (gpc = "cs_stop" /\ gpc' # gpc) => last_call'.op = "stop_tunnel"]_vars

C12_Witness ==
    /\ settings.scheduled_connect
    /\ settings.connect_time = QTime(22, 0) /\ settings.disconnect_time = QTime(8, 0)
    /\ last_call.op = "check_schedule" /\ last_call.at = QTime(23, 30)
    /\ gpc = "cs_start" /\ state = DISCONNECTED

\* the tick of C13: 12:00, window 22:00 to 08:00, schedule on, state Connected
NoonTickOvernight ==
    /\ CheckSchedule(QTime(12, 0))
    /\ settings.scheduled_connect
    /\ settings.connect_time = QTime(22, 0) /\ settings.disconnect_time = QTime(8, 0)
    /\ state = CONNECTED

\* C13 as stated: with the window connect 22:00, disconnect 08:00 and
\* scheduled_connect on, a tick at 12:00 while Connected performs no action:
\* it does not call stop_tunnel() and the state stays Connected.
C13_NoonTickDoesNothing ==
    [][NoonTickOvernight => (gpc' = "idle" /\ state' = CONNECTED)]_vars

\* C13 amended: that tick calls stop_tunnel(), 12:00 being in [08:00, 22:00).
C13_NoonTickStops ==
    [][/\ NoonTickOvernight => gpc' = "cs_stop"
       /\ (gpc = "cs_stop" /\ gpc' # gpc /\ last_call.at = QTime(12, 0))
            => last_call'.op = "stop_tunnel"]_vars

C13_Witness ==
    /\ settings.scheduled_connect
    /\ settings.connect_time = QTime(22, 0) /\ settings.disconnect_time = QTime(8, 0)
    /\ last_call.op = "check_schedule" /\ last_call.at = QTime(12, 0)
    /\ gpc = "cs_stop"
    /\ tunnel_process # None /\ Alive(tunnel_process)

\* ---------------------------------------- claims on the bandwidth monitor
\* C14: the bandwidth monitor is active (its ticks emit the non-zero pair)
\* only while the state is Connected; it is not active in Connecting, Error
\* or Disconnected, in particular not after an early failure of the client.
C14_BandwidthOnlyWhenConnected == bandwidth_running => state = CONNECTED

\* ------------------------------------------ claims on the settings file
Persisted(st) ==
    <<st.host, st.port, st.username, st.key_path, st.local_port, st.remote_port,
      st.auto_reconnect, st.scheduled_connect, st.connect_time, st.disconnect_time>>

\* C15: save_settings() followed by load_settings() yields the values saved
\* for host, port, username, key_path, local_port, remote_port,
\* auto_reconnect, scheduled_connect, connect_time and disconnect_time, the
\* times surviving the "HH:MM" text.
C15_SettingsRoundTrip ==
    (last_call.op = "load_settings" /\ last_saved # <<>>)
        => Persisted(settings) = Persisted(last_saved[1])

C15_Witness ==
    /\ last_call.op = "load_settings" /\ ~last_call.noop
    /\ settings.connect_time = QTime(23, 59) /\ settings.disconnect_time = QTime(9, 5)
    /\ settings.host = "x" /\ settings.port = 2222 /\ settings.scheduled_connect
    /\ ~settings.auto_reconnect
    /\ settings_file[1].connect_time_str = <<2, 3, 5, 9>>
    /\ settings_file[1].disconnect_time_str = <<0, 9, 0, 5>>

\* ------------------------------------------------ claims on stop and failure
\* C16: stop_tunnel() called when the state is Disconnected changes neither
\* the state nor the history nor the process handle (nor anything else of
\* the controller) and returns; and stop_tunnel() ends in Disconnected, so a
\* stop_tunnel() that follows it at once is that no-op.
C16_StopIsIdempotent ==
    [][/\ ((StopTunnel \/ ScheduleStop) /\ state = DISCONNECTED)
            => /\ UNCHANGED <<state, connection_history, tunnel_process,
                              reconnect_timer, reconnect_attempts,
                              bandwidth_running, proc, mpc>>
               /\ gpc' = "idle"
       /\ (gpc = "sp_finish" /\ gpc' # gpc)
            => (state' = DISCONNECTED /\ gpc' = "idle")]_vars

C16_Witness ==
    /\ last_call.op = "stop_tunnel" /\ last_call.noop
    /\ gpc = "idle" /\ state = DISCONNECTED
    /\ Len(connection_history) > 0
    /\ LastEvent.type = "Disconnected" /\ LastEvent.details = "Connection lost"

\* the controller is in Error on the early failure of the client it holds
EarlyFailureStands ==
    /\ state = ERROR
    /\ gpc = "idle"
    /\ tunnel_process # None /\ proc[tunnel_process] = "exited"
    /\ Len(connection_history) > 0
    /\ LastEvent = Event("Error", "Tunnel process failed")

\* C17: when the client has exited by the end of the grace window, the
\* monitor moves the controller to Error and appends an Error event; it
\* calls schedule_reconnect() if and only if auto_reconnect is true, and when
\* auto_reconnect is false the state stays Error with no timer armed until a
\* manual command.
C17_EarlyFailure ==
    [][/\ \A i \in ProcIds :
            (mpc[i] = "m_seterr" /\ mpc'[i] # mpc[i])
            => /\ state' = ERROR
               /\ connection_history' = Append(connection_history,
                      Event("Error", "Tunnel process failed"))
               /\ mpc'[i] = IF settings.auto_reconnect THEN "sr_check" ELSE "done"
       /\ (EarlyFailureStands /\ ~settings.auto_reconnect)
            => /\ ~reconnect_timer.active
               /\ mpc' # mpc => (state' = ERROR /\ ~reconnect_timer'.active)]_vars

\* no stop_tunnel() was called since the client monitor thread i waits for
\* was started: the handle still names it and the last command was a start
NoStopSince(i) == last_call.op = "start_tunnel" /\ tunnel_process = mproc[i]

\* C18: when the client exits while the state is Connected and no
\* stop_tunnel() was issued, the monitor moves the controller to
\* Disconnected, appends a Disconnected event carrying the exit code, stops
\* the bandwidth monitor, and calls schedule_reconnect() if and only if
\* auto_reconnect is true.
C18_UnexpectedTermination ==
    [][\A i \in ProcIds :
          /\ (/\ mpc[i] = "m_wait" /\ mpc'[i] # mpc[i]
              /\ state = CONNECTED /\ NoStopSince(i))
                => mpc'[i] = "m_setdisc"
          /\ (mpc[i] = "m_setdisc" /\ mpc'[i] # mpc[i] /\ NoStopSince(i))
                => /\ state' = DISCONNECTED
                   /\ connection_history' = Append(connection_history,
                          [Event("Disconnected", "Connection lost") EXCEPT !.code = "255"])
                   /\ mpc'[i] = "m_bwstop"
          /\ (mpc[i] = "m_bwstop" /\ mpc'[i] # mpc[i])
                => /\ bandwidth_running' = FALSE
                   /\ mpc'[i] = IF settings.auto_reconnect THEN "sr_check" ELSE "done"]_vars

C18_Witness ==
    /\ state = DISCONNECTED
    /\ last_call.op = "start_tunnel"
    /\ ~settings.auto_reconnect
    /\ ~bandwidth_running
    /\ tunnel_process # None /\ proc[tunnel_process] = "exited"
    /\ mpc[tunnel_process] = "done"
    /\ Len(connection_history) > 0
    /\ LastEvent.type = "Disconnected" /\ LastEvent.code = "255"

\* C19: when Popen raises, start_tunnel() ends in state Error with an Error
\* event and no live process handle; the call starts no monitor thread, does
\* not start the bandwidth monitor and schedules no reconnect, even when
\* auto_reconnect is true.
C19_SpawnFailure ==
    [][(gpc = "st_spawn" /\ gpc' # gpc /\ proc' = proc)
          => /\ state' = ERROR
             /\ connection_history' = Append(connection_history,
                    Event("Error", "Failed to start tunnel"))
             /\ gpc' = "idle"
             /\ tunnel_process' = None \/ ~Alive(tunnel_process')
             /\ UNCHANGED <<mpc, bandwidth_running, reconnect_timer,
                            reconnect_attempts>>]_vars

\* C20: on a validation failure start_tunnel() goes directly to Error: the
\* state does not pass through Connecting and no Connecting event is
\* appended; the Connecting state and event occur only when the settings
\* are valid.
C20_NoConnectingWhenInvalid ==
    ~SettingsValid
        => /\ state # CONNECTING
           /\ \A k \in 1..Len(connection_history) :
                 connection_history[k].type # "Connecting"

\* ------------------------------------------- claims on timer and history
\* C21: reaching Connected cancels the reconnect timer: in every reachable
\* state where the state is Connected no reconnect timer is armed, so a
\* timer armed before a start_tunnel() that succeeded never fires afterwards.
C21_ConnectedCancelsTimer == state = CONNECTED => ~reconnect_timer.active

IsPrefix(s, t) == Len(s) <= Len(t) /\ SubSeq(t, 1, Len(s)) = s

\* C22: the connection history is append-only: every operation of the
\* controller (start_tunnel, stop_tunnel, schedule_reconnect, monitor steps,
\* schedule ticks) leaves the previous history as a prefix of the new one;
\* only the user's clear_history empties it.
C22_HistoryAppendOnly ==
    [][IF ClearHistory
       THEN connection_history' = <<>>
       ELSE IsPrefix(connection_history, connection_history')]_vars

C22_Witness ==
    /\ last_call.op = "clear_history"
    /\ Len(connection_history) >= 2
    /\ connection_history[1].type = "Connected"
    /\ state = DISCONNECTED

\* ------------------------------------------------ claims on the handle
\* C23: the process handle is released when the process exits: after the
\* monitor has observed an early failure or an unexpected termination and
\* the controller is in Error or Disconnected, tunnel_process is None.
C23_HandleReleasedOnExit ==
    (/\ state \in {ERROR, DISCONNECTED}
     /\ Len(connection_history) > 0
     /\ LastEvent.details \in {"Tunnel process failed", "Connection lost"})
        => tunnel_process = None

\* ---------------------------------------------- claims on equal times
\* a tick at time t with the schedule on and connect_time = disconnect_time
EqualTimesTick(t) ==
    /\ CheckSchedule(t)
    /\ settings.scheduled_connect
    /\ settings.connect_time = settings.disconnect_time

\* C24 as stated: when connect_time = disconnect_time and scheduled_connect
\* is on, the tick takes the overnight branch and its "inside" condition is
\* true at every time of day except the exact instant t = connect_time: a
\* tick in state Disconnected calls start_tunnel() at every t other than
\* connect_time and calls nothing at t = connect_time; stop_tunnel() is
\* never called by the tick.
C24_InsideExceptConnectInstant ==
    [][\A t \in TickTimes :
          EqualTimesTick(t) =>
            /\ gpc' # "cs_stop"
            /\ (t # settings.connect_time /\ state = DISCONNECTED) => gpc' = "cs_start"
            /\ (t = settings.connect_time) => TickDoesNothing]_vars

\* C24 amended: with equal times the "inside" condition is true at every
\* time of day, t = connect_time included: the tick calls start_tunnel()
\* whenever the state is Disconnected, does nothing in every other state,
\* and never calls stop_tunnel().
C24_InsideAtEveryTime ==
    [][/\ \A t \in TickTimes :
            EqualTimesTick(t) =>
              IF state = DISCONNECTED THEN gpc' = "cs_start" ELSE TickDoesNothing
       /\ (gpc = "cs_start" /\ gpc' # gpc /\ last_call.at = settings.connect_time)
            => (last_call'.op = "start_tunnel" /\ last_call'.by = "schedule")]_vars

C24_Witness ==
    /\ settings.scheduled_connect
    /\ settings.connect_time = settings.disconnect_time
    /\ last_call.op = "check_schedule" /\ last_call.at = settings.connect_time
    /\ gpc = "cs_start" /\ state = DISCONNECTED

\* ------------------------------------------------ claims on robustness
\* C25: no failure leaves the controller stuck or broken: under fair
\* scheduling, with auto_reconnect on, no manual commands and a client that
\* exits early on every attempt, the system reaches Error with no reconnect
\* timer armed and no live process and stays there; and no interleaving of
\* stop_tunnel() with the monitor thread makes the monitor dereference a
\* released (None) process handle.  The second half as an invariant: no
\* monitor thread ends on reading an attribute of self.tunnel_process = None.
C25_NoNoneDereference == \A i \in ProcIds : mpc[i] # "crashed"

\* C26: state and process handle stay consistent in every interleaving of
\* the GUI thread and the monitor threads: whenever the state is Connected
\* or Connecting a process handle is held (tunnel_process is not None), and
\* whenever the state is Disconnected or Error no spawned client process is
\* alive.  Stated between the calls of the GUI thread (no handler is in the
\* middle of its body), so that the time start_tunnel() spends between
\* setting Connecting and spawning the client is not counted.
C26_StateHandleConsistent ==
    gpc = "idle" =>
        /\ state \in {CONNECTED, CONNECTING} => tunnel_process # None
        /\ state \in {DISCONNECTED, ERROR} => LiveProcs = {}

====
